---- MODULE Spec2Model ----
(***************************************************************************)
(* Copy-trading decision core of polystrladder: whale-trade eligibility,   *)
(* the paper executor's entry check, the price fetch, and the position     *)
(* lifecycle (L1 entry, L2 dollar-cost-average add, exits).                *)
(*                                                                         *)
(* Units.  Prices are integers in units of 1e-4 (0.65 is 6500, 0.7125 is   *)
(* 7125).  Whale sizes are integers in units of 0.1 share (62.5 shares is  *)
(* 625), so size * price is in units of 1e-5 quote currency.  Percent      *)
(* thresholds are compared after multiplying both sides by 100, so every   *)
(* comparison is exact.                                                    *)
(***************************************************************************)
EXTENDS Integers, FiniteSets, Sequences, TLC

(***************************************************************************)
(* Configuration: CONFIG of verify_copy_trading_logic.py and of            *)
(* validate_components.py.                                                 *)
(***************************************************************************)
MIN_PRICE == 6500
MAX_PRICE == 8500
MIN_WHALE_SIZE == 50
LIVE_ONLY == TRUE
TP_TRIGGER_PCT == 12
TP_TRAIL_PCT == 4
\* a cap of 0.99 configured instead of 0.95
HARD_CAP_PRICE_99 == 9500 + 400
HARD_CAP_PRICE == 9500
SL_TRIGGER_PCT == -12
L1_SIZE == 100
L2_SIZE == 75
l2_trigger == -5

(***************************************************************************)
(* Bounds of the model.                                                    *)
(***************************************************************************)
MaxTime == 5

\* Opportunities.  They share no state; Spec drives the opportunities of
\* Tracked through their whole lifecycle.
Opps == {1, 2}
Tracked == {1}

(***************************************************************************)
(* cleanup_orphans.py: the store is the set of TrackedMarket rows and the  *)
(* set of PaperTrade rows (prices in units of 1e-4).  The script deletes   *)
(* the PaperTrade rows whose marketId matches no TrackedMarket, then       *)
(* selects the TrackedMarket rows with whalePrice < 0.65 or                *)
(* currentPrice < 0.01 and prints them.                                    *)
(***************************************************************************)
MarketRows ==
  {[id |-> "m1", whalePrice |-> 5500, currentPrice |-> 7000],
   [id |-> "m2", whalePrice |-> 8000, currentPrice |-> 50],
   [id |-> "m3", whalePrice |-> 8000, currentPrice |-> 7000]}

TradeRows ==
  {[id |-> "t1", marketId |-> "m1"], [id |-> "t3", marketId |-> "m3"],
   [id |-> "t9", marketId |-> "m9"]}

Stores ==
  {[TrackedMarket |-> M, PaperTrade |-> T] : M \in SUBSET MarketRows, T \in SUBSET TradeRows}

cleanup_orphans(store) ==
  LET orphans == {pt \in store.PaperTrade :
                    ~\E tm \in store.TrackedMarket : pt.marketId = tm.id}
      bad_markets == {tm \in store.TrackedMarket :
                        tm.whalePrice < 6500 \/ tm.currentPrice < 100}
  IN  [TrackedMarket |-> store.TrackedMarket,
       PaperTrade |-> store.PaperTrade \ orphans,
       printed |-> bad_markets]

(***************************************************************************)
(* State.                                                                  *)
(***************************************************************************)
VARIABLES
  opp,       \* opp[o]: the TrackedOpportunity (whale trade, cached eligibility)
  pos,       \* pos[o][level]: the lot of ladder level 1 and 2
  fetched,   \* fetched[o]: the last fetch_current_price result (price 0: none),
             \* the tick it was made at, and whether the feed was unavailable
  now        \* clock, one tick per observation or fetch

\* Whale-trade inputs: each field is an option, {} meaning the key is
\* missing from the API record.
SideOpts == {{}, {"BUY"}, {"SELL"}}
WhalePriceOpts == {{}, {1000}, {5500}, {6500}, {8000}, {8500}, {9000}}
WhaleSizeOpts == {{}, {624}, {625}, {1000}}

\* Mid prices the feed can return.
PriceSamples ==
  {5500, 6160, 6500, 7000, 7125, 7500, 8000, 8400, 8580, 8640, 9000, 9500, 9600}

(***************************************************************************)
(* Python dicts: a trade is a function from the keys present to values.    *)
(***************************************************************************)
Field(k, opt) == [x \in (IF opt = {} THEN {} ELSE {k}) |-> CHOOSE v \in opt : TRUE]

MakeTrade(s, p, z) == Field("side", s) @@ Field("price", p) @@ Field("size", z)

Trades == {MakeTrade(s, p, z) : s \in SideOpts, p \in WhalePriceOpts, z \in WhaleSizeOpts}

\* dict.get(key, default)
Get(d, k, default) == IF k \in DOMAIN d THEN d[k] ELSE default

(***************************************************************************)
(* test_token_mapping.py: the Gamma market of a trade (outcomes and        *)
(* clobTokenIds, parsed from their JSON strings) and the mapping of a      *)
(* token to its outcome.  Python indices are 0-based: index = place - 1.   *)
(***************************************************************************)
GammaMarket == [outcomes |-> <<"Yes", "No">>, clobTokenIds |-> <<"token-yes", "token-no">>]

\* a mapping that always answers with the first outcome of the market
map_token_to_outcome_first(market, token_id) ==
  IF \E i \in 1..Len(market.clobTokenIds) : market.clobTokenIds[i] = token_id
    THEN <<market.outcomes[1], 0>>
    ELSE <<"UNKNOWN", -1>>

map_token_to_outcome_gamma(market, token_id) ==
  LET outcomes == market.outcomes
      token_ids == market.clobTokenIds
      places == {i \in 1..Len(token_ids) : token_ids[i] = token_id}
  IN  IF places # {}
        THEN LET idx == CHOOSE i \in places : \A j \in places : i <= j
             IN  <<outcomes[idx], idx - 1>>
        ELSE <<"UNKNOWN", -1>>

\* Whale trades as the data API returns them for that market: a BUY of the
\* token at place idx, with the outcome and outcomeIndex of that token.
TokenTrades ==
  {MakeTrade({"BUY"}, {p}, {1000})
     @@ [k \in {"asset"} |-> GammaMarket.clobTokenIds[idx]]
     @@ [k \in {"outcome"} |-> GammaMarket.outcomes[idx]]
     @@ [k \in {"outcomeIndex"} |-> idx - 1] :
   p \in {6500, 8000}, idx \in 1..Len(GammaMarket.clobTokenIds)}

(***************************************************************************)
(* simulate_eligibility_check: the reason is the message of the return     *)
(* statement taken (without the formatted numbers).                        *)
(***************************************************************************)
\* as simulate_eligibility_check, without check 2 (price >= MIN_PRICE)
simulate_eligibility_check_no_min(trade) ==
  LET side == Get(trade, "side", "None")
      price == Get(trade, "price", 0)
      size == Get(trade, "size", 0)
      trade_value == size * price
  IN  IF side # "BUY" THEN [eligible |-> FALSE, reason |-> "SKIP: Side is not BUY"]
      ELSE IF price > MAX_PRICE THEN [eligible |-> FALSE, reason |-> "SKIP: Price > max"]
      ELSE IF trade_value < MIN_WHALE_SIZE * 100000
        THEN [eligible |-> FALSE, reason |-> "SKIP: Trade size < min"]
      ELSE [eligible |-> TRUE, reason |-> "ELIGIBLE"]

\* a filter whose answer depends on when it is run
simulate_eligibility_check_by_clock(trade) ==
  IF now > 1
    THEN [eligible |-> FALSE, reason |-> "SKIP: Side is not BUY"]
    ELSE simulate_eligibility_check_no_min(trade)

simulate_eligibility_check(trade) ==
  LET side == Get(trade, "side", "None")
      price == Get(trade, "price", 0)
      size == Get(trade, "size", 0)
      trade_value == size * price
  IN  IF side # "BUY" THEN [eligible |-> FALSE, reason |-> "SKIP: Side is not BUY"]
      ELSE IF price < MIN_PRICE THEN [eligible |-> FALSE, reason |-> "SKIP: Price < min"]
      ELSE IF price > MAX_PRICE THEN [eligible |-> FALSE, reason |-> "SKIP: Price > max"]
      ELSE IF trade_value < MIN_WHALE_SIZE * 100000
        THEN [eligible |-> FALSE, reason |-> "SKIP: Trade size < min"]
      ELSE [eligible |-> TRUE, reason |-> "ELIGIBLE"]

\* test_eligibility_evaluation of validate_components.py: the evaluation
\* written inline in the loop over the fetched trades; reason stays None
\* for a trade that is counted as eligible.
test_eligibility_evaluation(trade) ==
  LET price == Get(trade, "price", 0)
      side == Get(trade, "side", "")
      size == Get(trade, "size", 0)
      reason ==
        IF side # "BUY" THEN "SKIP: Side is"
        ELSE IF price < MIN_PRICE THEN "SKIP: Price < 65%"
        ELSE IF price > MAX_PRICE THEN "SKIP: Price > 85%"
        ELSE IF size * price < MIN_WHALE_SIZE * 100000 THEN "SKIP: Size < $50"
        ELSE "None"
  IN  [eligible |-> reason = "None", reason |-> reason]

(***************************************************************************)
(* simulate_executor_check: PaperExecutor.executeL1Entry price checks.     *)
(***************************************************************************)
\* the executor before its fix: MIN_PRICE is not checked
simulate_executor_check_no_min(current_price) ==
  IF current_price > MAX_PRICE
    THEN [would_execute |-> FALSE, reason |-> "Skip L1: price > max"]
    ELSE [would_execute |-> TRUE, reason |-> "OK"]

simulate_executor_check(current_price) ==
  IF current_price < MIN_PRICE
    THEN [would_execute |-> FALSE, reason |-> "Skip L1: price < min"]
  ELSE IF current_price > MAX_PRICE
    THEN [would_execute |-> FALSE, reason |-> "Skip L1: price > max"]
  ELSE [would_execute |-> TRUE, reason |-> "OK"]

(***************************************************************************)
(* fetch_current_price: the CLOB midpoint request.  A response either      *)
(* raised (timeout, connection error) or carries a status code and a JSON  *)
(* body; every failure, and a body without "mid", yields 0.                *)
(***************************************************************************)
Responses ==
  {[raised |-> FALSE, status_code |-> 200, data |-> Field("mid", {p})] : p \in PriceSamples}
    \cup {[raised |-> FALSE, status_code |-> 200, data |-> Field("mid", {})],
          [raised |-> FALSE, status_code |-> 404, data |-> Field("mid", {})],
          [raised |-> TRUE, status_code |-> 0, data |-> Field("mid", {})]}

\* a synthetic tick in place of the 0 of a failed request
fetch_current_price_synthetic(response) ==
  IF ~response.raised /\ response.status_code = 200
    THEN Get(response.data, "mid", 1)
    ELSE 1

fetch_current_price(response) ==
  IF ~response.raised /\ response.status_code = 200
    THEN Get(response.data, "mid", 0)
    ELSE 0

(***************************************************************************)
(* Threshold prices of test_entry_logic and test_exit_conditions, each     *)
(* multiplied by 100:  entry * (1 + pct/100)  becomes  entry * (100 + pct).*)
(***************************************************************************)
\* the trigger percentage left out: any price at or below the entry
l2_price_at_entry(entry) == entry * 100

l2_price(entry) == entry * (100 + l2_trigger)

\* the trigger percentage left out: armed as soon as the lot is not losing
trigger_price_low(entry_price) == entry_price * 100

trigger_price(entry_price) == entry_price * (100 + TP_TRIGGER_PCT)

\* the trail percentage used as a fraction: peak * (1 - trail_pct)
trail_exit_unscaled(peak_price) == peak_price * (100 - 100 * TP_TRAIL_PCT)

\* the trail taken as trigger minus trail percent (8% below the peak)
trail_exit_from_trigger(peak_price) == peak_price * (100 - (TP_TRIGGER_PCT - TP_TRAIL_PCT))

trail_exit(peak_price) == peak_price * (100 - TP_TRAIL_PCT)

\* the stop-loss percentage applied twice
sl_price_wide(entry_price) == entry_price * (100 + 2 * SL_TRIGGER_PCT)

sl_price(entry_price) == entry_price * (100 + SL_TRIGGER_PCT)

Max(a, b) == IF a >= b THEN a ELSE b

\* the size of the first ladder level whatever lot is sized
shares_of_l1_size(size, price) == (L1_SIZE * 2000000 + price) \div (2 * price)

\* test_entry_logic: shares = L1_SIZE / price, in units of 0.01 share and
\* rounded to the nearest unit.
shares(size, price) == (size * 2000000 + price) \div (2 * price)

(***************************************************************************)
(* Position records (PaperTrade of analyze_paper_trades.py).               *)
(***************************************************************************)
NoPosition ==
  [status |-> "NONE", token_id |-> "", outcome |-> "?", outcome_index |-> -1,
   ladder_level |-> 0, entry_price |-> 0, entry_time |-> 0, shares |-> 0, cost_basis |-> 0, current_price |-> 0, high_water_mark |-> 0,
   trailing_active |-> FALSE, exit_price |-> 0, exit_time |-> 0, exit_reason |-> ""]

OpenPosition(tracked, level, cost, price, t) ==
  [status |-> "OPEN", token_id |-> tracked.token_id, outcome |-> tracked.outcome,
   outcome_index |-> tracked.outcome_index, ladder_level |-> level, entry_price |-> price, entry_time |-> t,
   shares |-> shares(cost, price), cost_basis |-> cost, current_price |-> price,
   high_water_mark |-> price,
   trailing_active |-> FALSE, exit_price |-> 0, exit_time |-> 0, exit_reason |-> ""]

\* A variant that recomputes the arming from each sample alone.
TrackSample_rearmed(position, current_price) ==
  [position EXCEPT
     !.current_price = current_price,
     !.high_water_mark = Max(position.high_water_mark, current_price),
     !.trailing_active = current_price * 100 >= trigger_price(position.entry_price)]

\* Per-sample tracking of an open lot: last price, high-water mark, arming.
TrackSample(position, current_price) ==
  [position EXCEPT
     !.current_price = current_price,
     !.high_water_mark = Max(position.high_water_mark, current_price),
     !.trailing_active =
        position.trailing_active \/ current_price * 100 >= trigger_price(position.entry_price)]

\* Exit Policy Engine: first matching rule wins.
decide_exit(position, current_price) ==
  IF current_price >= HARD_CAP_PRICE THEN "HARD_CAP"
  ELSE IF position.trailing_active
          /\ current_price * 100 <= trail_exit(position.high_water_mark) THEN "TP_TRAIL"
  ELSE IF current_price * 100 <= sl_price(position.entry_price) THEN "STOP_LOSS"
  ELSE "NONE"

ClosePosition(position, current_price, reason, t) ==
  [position EXCEPT !.status = "CLOSED", !.exit_price = current_price,
                   !.exit_time = t, !.exit_reason = reason]

\* A variant that evaluates a lot whatever its status is.
EvaluateLot_any_status(position, current_price, t) ==
  IF position.status = "NONE" THEN position
  ELSE LET tracked == TrackSample(position, current_price)
           decision == decide_exit(tracked, current_price)
       IN  IF decision = "NONE" THEN tracked
           ELSE ClosePosition(tracked, current_price, decision, t)

\* One price sample applied to one lot.
EvaluateLot(position, current_price, t) ==
  IF position.status # "OPEN" THEN position
  ELSE LET tracked == TrackSample(position, current_price)
           decision == decide_exit(tracked, current_price)
       IN  IF decision = "NONE" THEN tracked
           ELSE ClosePosition(tracked, current_price, decision, t)

(***************************************************************************)
(* The operations on lots as the caller sees them (error taxonomy): each   *)
(* returns an outcome beside the new value, and an operation whose         *)
(* precondition fails returns PRECONDITION_FAILED and the value unchanged. *)
(***************************************************************************)
\* a DCA add that does nothing, and says OK, when it cannot be made
open_l2_silent(tracked, lots, price, t) ==
  IF lots[1].status # "OPEN" \/ lots[2].status # "NONE"
    THEN [outcome |-> "OK", lots |-> lots]
    ELSE [outcome |-> "OK",
          lots |-> [lots EXCEPT ![2] = OpenPosition(tracked, 2, L2_SIZE, price, t)]]

open_l2(tracked, lots, price, t) ==
  IF lots[1].status # "OPEN" \/ lots[2].status # "NONE"
    THEN [outcome |-> "PRECONDITION_FAILED", lots |-> lots]
    ELSE [outcome |-> "OK",
          lots |-> [lots EXCEPT ![2] = OpenPosition(tracked, 2, L2_SIZE, price, t)]]

transition(position, current_price, t) ==
  IF position.status # "OPEN"
    THEN [outcome |-> "PRECONDITION_FAILED", position |-> position]
    ELSE [outcome |-> "OK", position |-> EvaluateLot(position, current_price, t)]

(***************************************************************************)
(* analyze_paper_trades.py: TRADE_DATA, one tuple per CSV line (source     *)
(* lines 14 to 48, in order), split at "','" as parse_trades does.  The    *)
(* 1-based tuple index is the Python index of parts plus one.  Prices      *)
(* (parts 2, 7, 10, 12) are in units of 1e-4; shares, realized P&L and     *)
(* realized percent (parts 4, 15, 16) are rounded to units of 0.01; entry  *)
(* and exit time (parts 3, 13) are milliseconds since 2026-01-02 00:00:00; *)
(* ids keep their first eight characters; the last two columns, which      *)
(* parse_trades does not read, are kept as written.                        *)
(***************************************************************************)
TRADE_DATA ==
  <<<<"09065512", "366df1f3", 6750, 86268959, 14815, 100, 1, 7400, 0, 0, 7800, "1", 7400, 86450305, "TP_TRAIL", 963, 963, 3, "CLOSED", "2026-01-02 23:57:48.959", "2026-01-03 00:00:50.306">>,
   <<"1310dbe8", "528a60ce", 2900, 106244511, 34483, 100, 1, 2550, 0, 0, 2950, "0", 2550, 106505750, "STOP_LOSS", -1207, -1207, 4, "CLOSED", "2026-01-03 05:30:44.511", "2026-01-03 05:35:05.751">>,
   <<"1a944796", "1cc7ee52", 6050, 103084421, 16529, 100, 1, 6850, 0, 0, 7650, "1", 6850, 103123482, "TP_TRAIL", 1322, 1322, 0, "CLOSED", "2026-01-03 04:38:04.421", "2026-01-03 04:38:43.483">>,
   <<"1bf6a01b", "528a60ce", 7000, 106729529, 14286, 100, 1, 5650, 0, 0, 7000, "0", 5650, 106735765, "STOP_LOSS", -1929, -1929, 0, "CLOSED", "2026-01-03 05:38:49.529", "2026-01-03 05:38:55.766">>,
   <<"1dc2727d", "528a60ce", 2550, 106509518, 39216, 100, 1, 4650, 0, 0, 5050, "1", 4650, 106725766, "TP_TRAIL", 8235, 8235, 3, "CLOSED", "2026-01-03 05:35:09.518", "2026-01-03 05:38:45.767">>,
   <<"216d2645", "1cc7ee52", 5100, 102969419, 19608, 100, 1, 5450, 0, 0, 6200, "1", 5450, 103007478, "TP_TRAIL", 686, 686, 0, "CLOSED", "2026-01-03 04:36:09.419", "2026-01-03 04:36:47.478">>,
   <<"28919576", "1cc7ee52", 7450, 103414431, 10067, 75, 2, 9550, 0, 0, 9550, "1", 9550, 103799529, "HARD_CAP", 2114, 2819, 6, "CLOSED", "2026-01-03 04:43:34.431", "2026-01-03 04:49:59.530">>,
   <<"37a574e2", "1cc7ee52", 4650, 102519410, 21505, 100, 1, 5050, 0, 0, 5300, "1", 5050, 102787461, "TP_TRAIL", 860, 860, 4, "CLOSED", "2026-01-03 04:28:39.410", "2026-01-03 04:33:07.462">>,
   <<"37d91fbc", "1cc7ee52", 7250, 102329411, 10345, 75, 2, 6250, 0, 0, 7750, "0", 6250, 102379425, "STOP_LOSS", -1034, -1379, 0, "CLOSED", "2026-01-03 04:25:29.411", "2026-01-03 04:26:19.426">>,
   <<"421ca7e6", "98e64b31", 6850, 78741514, 14599, 100, 1, 7350, 0, 0, 7750, "1", 7350, 79861787, "TP_TRAIL", 730, 730, 18, "CLOSED", "2026-01-02 21:52:21.514", "2026-01-02 22:11:01.788">>,
   <<"47188b00", "1cc7ee52", 7900, 103404435, 12658, 100, 1, 6950, 0, 0, 7900, "0", 6950, 103519506, "STOP_LOSS", -1203, -1203, 1, "CLOSED", "2026-01-03 04:43:24.435", "2026-01-03 04:45:19.507">>,
   <<"51f9015b", "1cc7ee52", 6250, 102384407, 16000, 100, 1, 5400, 0, 0, 6350, "0", 5400, 102459436, "STOP_LOSS", -1360, -1360, 1, "CLOSED", "2026-01-03 04:26:24.407", "2026-01-03 04:27:39.437">>,
   <<"52ac0aac", "1cc7ee52", 5950, 103229424, 16807, 100, 1, 6650, 0, 0, 7000, "1", 6650, 103259491, "TP_TRAIL", 1176, 1176, 0, "CLOSED", "2026-01-03 04:40:29.424", "2026-01-03 04:40:59.492">>,
   <<"5813df04", "528a60ce", 2650, 105059478, 37736, 100, 1, 2900, 0, 0, 3050, "1", 2900, 106241727, "TP_TRAIL", 943, 943, 19, "CLOSED", "2026-01-03 05:10:59.478", "2026-01-03 05:30:41.727">>,
   <<"5a45d203", "1cc7ee52", 4650, 102929422, 21505, 100, 1, 5100, 0, 0, 5350, "1", 5100, 102965470, "TP_TRAIL", 968, 968, 0, "CLOSED", "2026-01-03 04:35:29.422", "2026-01-03 04:36:05.471">>,
   <<"64560c22", "1cc7ee52", 5050, 102789418, 19802, 100, 1, 5250, 0, 0, 5900, "1", 5250, 102909465, "TP_TRAIL", 396, 396, 2, "CLOSED", "2026-01-03 04:33:09.418", "2026-01-03 04:35:09.466">>,
   <<"6b2a1921", "528a60ce", 1800, 104244458, 55556, 100, 1, 3150, 0, 0, 3300, "1", 3150, 104295554, "TP_TRAIL", 7500, 7500, 0, "CLOSED", "2026-01-03 04:57:24.458", "2026-01-03 04:58:15.555">>,
   <<"7eee489d", "528a60ce", 1250, 104859474, 80000, 100, 1, 1350, 0, 0, 1450, "1", 1350, 104891606, "TP_TRAIL", 800, 800, 0, "CLOSED", "2026-01-03 05:07:39.474", "2026-01-03 05:08:11.606">>,
   <<"8d201c62", "1cc7ee52", 5850, 103049420, 17094, 100, 1, 6050, 0, 0, 7150, "1", 6050, 103083482, "TP_TRAIL", 342, 342, 0, "CLOSED", "2026-01-03 04:37:29.420", "2026-01-03 04:38:03.483">>,
   <<"8f50abc7", "366df1f3", 7350, 85573935, 10204, 75, 2, 7250, 0, 0, 8550, "1", 7250, 85866259, "TP_TRAIL", -102, -136, 4, "CLOSED", "2026-01-02 23:46:13.935", "2026-01-02 23:51:06.260">>,
   <<"973c970e", "366df1f3", 7550, 86453966, 13245, 100, 1, 8600, 0, 0, 9000, "1", 8600, 86568317, "TP_TRAIL", 1391, 1391, 1, "CLOSED", "2026-01-03 00:00:53.966", "2026-01-03 00:02:48.318">>,
   <<"a0f74655", "528a60ce", 1400, 104894474, 71429, 100, 1, 3350, 0, 0, 3600, "1", 3350, 105029620, "TP_TRAIL", 13929, 13929, 2, "CLOSED", "2026-01-03 05:08:14.474", "2026-01-03 05:10:29.621">>,
   <<"a157a6a2", "f4e7cf4a", 8000, 93954176, 12500, 100, 1, 9550, 0, 0, 9550, "1", 9550, 96487011, "HARD_CAP", 1937, 1937, 42, "CLOSED", "2026-01-03 02:05:54.176", "2026-01-03 02:48:07.011">>,
   <<"a3458867", "1cc7ee52", 5250, 103009419, 19048, 100, 1, 5850, 0, 0, 6150, "1", 5850, 103045479, "TP_TRAIL", 1143, 1143, 0, "CLOSED", "2026-01-03 04:36:49.419", "2026-01-03 04:37:25.480">>,
   <<"aa9de8a3", "1cc7ee52", 5250, 102914421, 19048, 100, 1, 4500, 0, 0, 5250, "0", 4500, 102925469, "STOP_LOSS", -1429, -1429, 0, "CLOSED", "2026-01-03 04:35:14.421", "2026-01-03 04:35:25.470">>,
   <<"aef5a932", "528a60ce", 1650, 104814472, 60606, 100, 1, 1350, 0, 0, 1750, "0", 1350, 104855605, "STOP_LOSS", -1818, -1818, 0, "CLOSED", "2026-01-03 05:06:54.472", "2026-01-03 05:07:35.606">>,
   <<"b1aee239", "1cc7ee52", 7700, 102234403, 12987, 100, 1, 6550, 0, 0, 8050, "0", 6550, 102351423, "STOP_LOSS", -1494, -1494, 1, "CLOSED", "2026-01-03 04:23:54.403", "2026-01-03 04:25:51.424">>,
   <<"b519a617", "528a60ce", 3050, 104299459, 32787, 100, 1, 1450, 0, 0, 3300, "0", 1450, 104809599, "STOP_LOSS", -5246, -5246, 8, "CLOSED", "2026-01-03 04:58:19.459", "2026-01-03 05:06:49.600">>,
   <<"bddd33e0", "1cc7ee52", 6850, 103124422, 14599, 100, 1, 5900, 0, 0, 7000, "0", 5900, 103225489, "STOP_LOSS", -1387, -1387, 1, "CLOSED", "2026-01-03 04:38:44.422", "2026-01-03 04:40:25.490">>,
   <<"cd732842", "528a60ce", 3150, 105034481, 31746, 100, 1, 2650, 0, 0, 3150, "0", 2650, 105057624, "STOP_LOSS", -1587, -1587, 0, "CLOSED", "2026-01-03 05:10:34.481", "2026-01-03 05:10:57.625">>,
   <<"cf530aba", "528a60ce", 5000, 106739529, 20000, 100, 1, 2850, 0, 0, 5550, "0", 2850, 108347887, "STOP_LOSS", -4300, -4300, 26, "CLOSED", "2026-01-03 05:38:59.529", "2026-01-03 06:05:47.888">>,
   <<"d6bdc3b9", "a66cc1ae", 6850, 91499119, 14599, 100, 1, 8300, 0, 0, 8650, "1", 8300, 93130785, "TP_TRAIL", 2117, 2117, 27, "CLOSED", "2026-01-03 01:24:59.119", "2026-01-03 01:52:10.786">>,
   <<"d6e68f92", "366df1f3", 7200, 85868000, 13889, 100, 1, 9900, 0, 0, 8250, "1", 9500, 86190000, "TP_TRAIL", 3760, 3767, 5, "CLOSED", "2026-01-02 23:51:08.000", "2026-01-02 23:56:30.000">>,
   <<"e6a25fb9", "1cc7ee52", 6450, 103264425, 15504, 100, 1, 8500, 0, 0, 8950, "1", 8500, 103403499, "TP_TRAIL", 3178, 3178, 2, "CLOSED", "2026-01-03 04:41:04.425", "2026-01-03 04:43:23.500">>,
   <<"e9e5f444", "1cc7ee52", 5450, 102464417, 18349, 100, 1, 4550, 0, 0, 5650, "0", 4550, 102515441, "STOP_LOSS", -1651, -1651, 0, "CLOSED", "2026-01-03 04:27:44.417", "2026-01-03 04:28:35.442">>>>

\* A variant that reads high_water_mark from the current_price column.
parse_trades_hwm_from_current(data) ==
  LET lines == SelectSeq(data, LAMBDA parts : Len(parts) >= 20)
  IN  [i \in 1..Len(lines) |->
        LET parts == lines[i]
        IN  [id |-> parts[1], market_id |-> parts[2], entry_price |-> parts[3],
             entry_time |-> parts[4], shares |-> parts[5], cost_basis |-> parts[6],
             ladder_level |-> parts[7], current_price |-> parts[8],
             exit_price |-> parts[13], high_water_mark |-> parts[8],
             trailing_active |-> (parts[12] = "1"), exit_time |-> parts[14],
             exit_reason |-> parts[15], realized_pnl |-> parts[16],
             realized_pct |-> parts[17], hold_time_minutes |-> parts[18],
             status |-> parts[19]]]

\* parse_trades: lines with fewer than 20 parts are skipped.
parse_trades(data) ==
  LET lines == SelectSeq(data, LAMBDA parts : Len(parts) >= 20)
  IN  [i \in 1..Len(lines) |->
        LET parts == lines[i]
        IN  [id |-> parts[1], market_id |-> parts[2], entry_price |-> parts[3],
             entry_time |-> parts[4], shares |-> parts[5], cost_basis |-> parts[6],
             ladder_level |-> parts[7], current_price |-> parts[8],
             exit_price |-> parts[13], high_water_mark |-> parts[11],
             trailing_active |-> (parts[12] = "1"), exit_time |-> parts[14],
             exit_reason |-> parts[15], realized_pnl |-> parts[16],
             realized_pct |-> parts[17], hold_time_minutes |-> parts[18],
             status |-> parts[19]]]

\* analyze: trades = parse_trades()
trades == parse_trades(TRADE_DATA)

\* analyze, market concentration: the number of trades of each market_id
\* (the P&L sum kept beside the count is left out).
markets ==
  [mkt \in {trades[i].market_id : i \in DOMAIN trades} |->
     [count |-> Cardinality({i \in DOMAIN trades : trades[i].market_id = mkt})]]

vars == <<opp, pos, fetched, now>>

NoOpportunity ==
  [observed |-> FALSE, trade |-> MakeTrade({}, {}, {}), token_id |-> "",
   outcome |-> "?", outcome_index |-> -1,
   last_attempt |-> [kind |-> "", level |-> 0, time |-> -1, outcome |-> ""],
   game_start_time |-> 0,
   observed_at |-> 0, live |-> FALSE,
   copy_eligible |-> FALSE, copy_reason |-> ""]

Init ==
  /\ opp = [o \in Opps |-> NoOpportunity]
  /\ pos = [o \in Opps |-> [l \in 1..2 |-> NoPosition]]
  /\ fetched = [o \in Opps |-> [price |-> 0, time |-> -1, unavailable |-> FALSE]]
  /\ now = 0

HasPosition(o) == \E l \in 1..2 : pos[o][l].status # "NONE"
HasOpenLot(o) == \E l \in 1..2 : pos[o][l].status = "OPEN"
IsClosed(o) == HasPosition(o) /\ ~HasOpenLot(o)

\* test_live_game_detection: the game_start_time of the market, as a tick
\* relative to the clock: before, at and after the first observation.
GameStartOpts == {-1, 0, 1}

\* test_live_game_detection: start_dt <= now is LIVE, otherwise PRE-GAME.
game_is_live(start_dt, observed_at) == start_dt <= observed_at

\* The feed gave no price: the request raised, the status is not 200, or the
\* body has no "mid".
Unavailable(response) ==
  response.raised \/ response.status_code # 200 \/ "mid" \notin DOMAIN response.data

\* WhaleTracker.processTrade: track the opportunity and cache the eligibility.
ProcessTrade(o, trade, game_start_time) ==
  /\ now < MaxTime
  /\ ~opp[o].observed
  /\ LET eligibility == simulate_eligibility_check(trade)
     IN  opp' = [opp EXCEPT ![o] =
                   [observed |-> TRUE, trade |-> trade,
                    token_id |-> Get(trade, "asset", ""),
                    outcome |-> Get(trade, "outcome", "?"),
                    outcome_index |-> Get(trade, "outcomeIndex", -1),
                    last_attempt |-> opp[o].last_attempt,
                    game_start_time |-> game_start_time, observed_at |-> now,
                    live |-> game_is_live(game_start_time, now),
                    copy_eligible |-> eligibility.eligible,
                    copy_reason |-> eligibility.reason]]
  /\ now' = now + 1
  /\ UNCHANGED <<pos, fetched>>

\* PaperExecutor.checkEntries / executeL1Entry on a fetched price.
CheckEntries(o, response) ==
  LET current_price == fetch_current_price(response)
  IN  /\ now < MaxTime
      /\ opp[o].observed
      /\ ~HasPosition(o)
      /\ current_price > 0
      /\ fetched' = [fetched EXCEPT ![o] = [price |-> current_price, time |-> now,
                                         unavailable |-> Unavailable(response)]]
      /\ pos' = IF opp[o].copy_eligible /\ simulate_executor_check(current_price).would_execute
                  THEN [pos EXCEPT ![o][1] = OpenPosition(opp[o], 1, L1_SIZE, current_price, now)]
                  ELSE pos
      /\ now' = now + 1
      /\ UNCHANGED opp

\* A variant in which the exit of one lot closes the other lot with it.
EvaluatePositions_coupled(o, response) ==
  LET current_price == fetch_current_price(response)
      l1 == EvaluateLot(pos[o][1], current_price, now)
      l2 == EvaluateLot(pos[o][2], current_price, now)
      both == /\ pos[o][1].status = "OPEN" /\ pos[o][2].status = "OPEN"
              /\ (l1.status = "CLOSED" \/ l2.status = "CLOSED")
      reason == IF l1.status = "CLOSED" THEN l1.exit_reason ELSE l2.exit_reason
      dca == /\ l1.status = "OPEN"
             /\ pos[o][2].status = "NONE"
             /\ current_price * 100 <= l2_price(l1.entry_price)
  IN  /\ now < MaxTime
      /\ HasOpenLot(o)
      /\ current_price > 0
      /\ fetched' = [fetched EXCEPT ![o] = [price |-> current_price, time |-> now,
                                         unavailable |-> Unavailable(response)]]
      /\ pos' = [pos EXCEPT ![o] =
                   [l \in 1..2 |->
                      IF both
                        THEN ClosePosition(TrackSample(pos[o][l], current_price),
                                           current_price, reason, now)
                      ELSE IF l = 1 THEN l1
                      ELSE IF dca THEN OpenPosition(opp[o], 2, L2_SIZE, current_price, now)
                      ELSE l2]]
      /\ now' = now + 1
      /\ UNCHANGED opp

\* ExitManager on a fetched price: every open lot is evaluated, then the
\* DCA add is made if L1 is still open and its loss reached the L2 trigger.
EvaluatePositions(o, response) ==
  LET current_price == fetch_current_price(response)
      l1 == EvaluateLot(pos[o][1], current_price, now)
      l2 == EvaluateLot(pos[o][2], current_price, now)
      dca == /\ l1.status = "OPEN"
             /\ pos[o][2].status = "NONE"
             /\ current_price * 100 <= l2_price(l1.entry_price)
  IN  /\ now < MaxTime
      /\ HasOpenLot(o)
      /\ current_price > 0
      /\ fetched' = [fetched EXCEPT ![o] = [price |-> current_price, time |-> now,
                                         unavailable |-> Unavailable(response)]]
      /\ pos' = [pos EXCEPT ![o] =
                   [l \in 1..2 |->
                      IF l = 1 THEN l1
                      ELSE IF dca THEN OpenPosition(opp[o], 2, L2_SIZE, current_price, now)
                      ELSE l2]]
      /\ now' = now + 1
      /\ UNCHANGED opp

\* A fetched price for an opportunity whose lots are all closed: nothing to do.
SampleAfterClose(o, response) ==
  LET current_price == fetch_current_price(response)
  IN  /\ now < MaxTime
      /\ IsClosed(o)
      /\ current_price > 0
      /\ fetched' = [fetched EXCEPT ![o] = [price |-> current_price, time |-> now,
                                         unavailable |-> Unavailable(response)]]
      /\ now' = now + 1
      /\ UNCHANGED <<opp, pos>>

\* A failed fetch that holds up the whole cycle: every opportunity is
\* marked as fetched without a price.
FetchFailed_whole_cycle(o, response) ==
  /\ now < MaxTime
  /\ opp[o].observed
  /\ fetch_current_price(response) = 0
  /\ fetched' = [q \in Opps |-> [price |-> 0, time |-> now,
                                  unavailable |-> Unavailable(response)]]
  /\ now' = now + 1
  /\ UNCHANGED <<opp, pos>>

\* The fetch failed (fetch_current_price returned 0): the cycle is skipped.
FetchFailed(o, response) ==
  /\ now < MaxTime
  /\ opp[o].observed
  /\ fetch_current_price(response) = 0
  /\ fetched' = [fetched EXCEPT ![o] = [price |-> 0, time |-> now,
                                     unavailable |-> Unavailable(response)]]
  /\ now' = now + 1
  /\ UNCHANGED <<opp, pos>>

Next ==
  \E o \in Tracked :
    \/ \E trade \in Trades, game_start_time \in GameStartOpts :
         ProcessTrade(o, trade, game_start_time)
    \/ \E response \in Responses : CheckEntries(o, response)
    \/ \E response \in Responses : EvaluatePositions(o, response)
    \/ \E response \in Responses : SampleAfterClose(o, response)
    \/ \E response \in Responses : FetchFailed(o, response)

Spec == Init /\ [][Next]_vars

\* run_verification: the trades of several whales are processed in one run,
\* a whale whose trades cannot be fetched being skipped.  Two opportunities
\* are driven, their steps interleaved in every order, on a small set of
\* whale trades and feed responses.
PairTrades == {MakeTrade({"BUY"}, {8000}, {1000}), MakeTrade({"SELL"}, {8000}, {1000})}

PairResponses ==
  {r \in Responses : fetch_current_price(r) \in {7500, 7000, 6500, 9500}}
    \cup {r \in Responses : r.raised}

NextPair ==
  \E o \in Opps :
    \/ \E trade \in PairTrades : ProcessTrade(o, trade, 0)
    \/ \E response \in PairResponses : CheckEntries(o, response)
    \/ \E response \in PairResponses : EvaluatePositions(o, response)
    \/ \E response \in PairResponses : SampleAfterClose(o, response)
    \/ \E response \in PairResponses : FetchFailed(o, response)

SpecPair == Init /\ [][NextPair]_vars

\* A caller that invokes the operations directly, whatever the state of the
\* lots: a DCA add, and a price sample applied to one lot.
AttemptOpenL2(o, response) ==
  LET current_price == fetch_current_price(response)
      result == open_l2(opp[o], pos[o], current_price, now)
  IN  /\ now < MaxTime
      /\ opp[o].observed
      /\ current_price > 0
      /\ pos' = [pos EXCEPT ![o] = result.lots]
      /\ opp' = [opp EXCEPT ![o].last_attempt =
                   [kind |-> "OPEN_L2", level |-> 2, time |-> now,
                    outcome |-> result.outcome]]
      /\ now' = now + 1
      /\ UNCHANGED fetched

AttemptTransition(o, l, response) ==
  LET current_price == fetch_current_price(response)
      result == transition(pos[o][l], current_price, now)
  IN  /\ now < MaxTime
      /\ pos[o][l].status # "NONE"
      /\ current_price > 0
      /\ pos' = [pos EXCEPT ![o][l] = result.position]
      /\ opp' = [opp EXCEPT ![o].last_attempt =
                   [kind |-> "TRANSITION", level |-> l, time |-> now,
                    outcome |-> result.outcome]]
      /\ now' = now + 1
      /\ UNCHANGED fetched

NextCaller ==
  \E o \in Tracked :
    \/ \E trade \in PairTrades : ProcessTrade(o, trade, 0)
    \/ \E response \in PairResponses : CheckEntries(o, response)
    \/ \E response \in PairResponses : EvaluatePositions(o, response)
    \/ \E response \in PairResponses : SampleAfterClose(o, response)
    \/ \E response \in PairResponses : FetchFailed(o, response)
    \/ \E response \in PairResponses : AttemptOpenL2(o, response)
    \/ \E l \in 1..2, response \in PairResponses : AttemptTransition(o, l, response)

SpecCaller == Init /\ [][NextCaller]_vars

\* The lifecycle of one opportunity whose whale trade names its token.
NextTokens ==
  \E o \in Tracked :
    \/ \E trade \in TokenTrades : ProcessTrade(o, trade, 0)
    \/ \E response \in Responses : CheckEntries(o, response)
    \/ \E response \in Responses : EvaluatePositions(o, response)
    \/ \E response \in Responses : SampleAfterClose(o, response)
    \/ \E response \in Responses : FetchFailed(o, response)

SpecTokens == Init /\ [][NextTokens]_vars

(***************************************************************************)
(* Claims.                                                                 *)
(***************************************************************************)

\* The acceptance predicate of section 4.1, checks 1 to 3, on the raw record.
PassesChecks(trade) ==
  /\ "side" \in DOMAIN trade /\ trade["side"] = "BUY"
  /\ "price" \in DOMAIN trade /\ 6500 <= trade["price"] /\ trade["price"] <= 8500
  /\ "size" \in DOMAIN trade /\ trade["size"] * trade["price"] >= 50 * 100000

\* A fetch for opportunity o was made in this step.
Sampled(o) == fetched'[o].time = now

\* C1: for a trade on a live market the filter's result is eligible exactly
\* when side is BUY, 0.65 <= price <= 0.85 and size * price >= 50.
C1_EligibleIffChecksPass ==
  \A o \in Opps :
    opp[o].observed /\ opp[o].live =>
      (opp[o].copy_eligible <=> PassesChecks(opp[o].trade))

\* C1 witness: a live BUY accepted with a notional of exactly 50.
C1_Witness ==
  \E o \in Opps :
    /\ opp[o].observed /\ opp[o].live /\ opp[o].copy_eligible
    /\ opp[o].trade["size"] * opp[o].trade["price"] = 50 * 100000

\* The reason code of section 4.1 for each message of the filter.
ReasonCode(reason) ==
  CASE reason = "SKIP: Side is not BUY" -> "NOT_A_BUY"
    [] reason \in {"SKIP: Price < min", "SKIP: Price > max"} -> "PRICE_OUT_OF_RANGE"
    [] reason = "SKIP: Trade size < min" -> "SIZE_TOO_SMALL"
    [] OTHER -> reason

FirstFailingCheck(trade, live) ==
  IF ~("side" \in DOMAIN trade /\ trade["side"] = "BUY") THEN "NOT_A_BUY"
  ELSE IF ~("price" \in DOMAIN trade /\ 6500 <= trade["price"] /\ trade["price"] <= 8500)
    THEN "PRICE_OUT_OF_RANGE"
  ELSE IF ~("size" \in DOMAIN trade /\ trade["size"] * trade["price"] >= 50 * 100000)
    THEN "SIZE_TOO_SMALL"
  ELSE IF LIVE_ONLY /\ ~live THEN "NOT_LIVE"
  ELSE "ELIGIBLE"

\* C2: the cached reason is that of the first failing check in the order
\* side, price band, notional size, live status.
C2_FirstFailingCheckWins ==
  \A o \in Opps :
    opp[o].observed =>
      ReasonCode(opp[o].copy_reason) = FirstFailingCheck(opp[o].trade, opp[o].live)

\* C3: a rejected opportunity never has a position, and the cached
\* eligibility of an observed opportunity never changes.
C3_RejectedNeverEnters ==
  [][\A o \in Opps :
       /\ opp[o].observed =>
            /\ opp'[o].observed
            /\ opp'[o].copy_eligible = opp[o].copy_eligible
            /\ opp'[o].trade = opp[o].trade
       /\ opp'[o].observed /\ (~opp'[o].copy_eligible \/ ~PassesChecks(opp'[o].trade)) =>
            \A l \in 1..2 : pos'[o][l].status = "NONE"]_vars

\* C3 witness (scenario D): whale price 0.55, a later live price inside the
\* band, and no position.
C3_Witness ==
  \E o \in Opps :
    /\ opp[o].observed /\ ~opp[o].copy_eligible
    /\ "price" \in DOMAIN opp[o].trade /\ opp[o].trade["price"] = 5500
    /\ "side" \in DOMAIN opp[o].trade /\ opp[o].trade["side"] = "BUY"
    /\ fetched[o].price >= 6500 /\ fetched[o].price <= 8500
    /\ ~HasPosition(o)

\* C4: L1 is opened only for a copy-eligible opportunity on a fetched price
\* inside [0.65, 0.85], at that price; a fetched price outside the band
\* opens nothing.
C4_EntryRechecksBand ==
  [][\A o \in Opps :
       pos[o][1].status = "NONE" =>
         /\ pos'[o][1].status # "NONE" =>
              /\ opp[o].copy_eligible
              /\ Sampled(o)
              /\ 6500 <= fetched'[o].price /\ fetched'[o].price <= 8500
              /\ pos'[o][1].status = "OPEN"
              /\ pos'[o][1].entry_price = fetched'[o].price
         /\ Sampled(o) /\ (fetched'[o].price < 6500 \/ fetched'[o].price > 8500) =>
              pos'[o][1].status = "NONE"]_vars

\* C4 witness: L1 entered at an execution price that is not the whale's.
C4_Witness ==
  \E o \in Opps :
    /\ pos[o][1].status = "OPEN"
    /\ pos[o][1].entry_price = fetched[o].price
    /\ pos[o][1].entry_price # opp[o].trade["price"]

\* C5: every position, of either ladder level, has an entry price inside
\* [0.65, 0.85]: every lot of the state machine and every recorded trade.
C5_EveryEntryInBand ==
  /\ \A o \in Opps, l \in 1..2 :
       pos[o][l].status # "NONE" =>
         6500 <= pos[o][l].entry_price /\ pos[o][l].entry_price <= 8500
  /\ \A i \in DOMAIN trades :
       6500 <= trades[i].entry_price /\ trades[i].entry_price <= 8500

TrailOnlyAfterArming(p) ==
  /\ p.exit_reason = "TP_TRAIL" =>
       p.trailing_active /\ p.high_water_mark * 100 >= p.entry_price * 112
  /\ p.high_water_mark * 100 < p.entry_price * 112 =>
       ~p.trailing_active /\ p.exit_reason # "TP_TRAIL"

\* C7: a lot whose return never reached +12% is never closed with TP_TRAIL,
\* and every lot closed with TP_TRAIL is armed at close; for the lots of the
\* state machine and for the recorded trades.
C7_TrailOnlyAfterArming ==
  /\ \A o \in Opps, l \in 1..2 :
       pos[o][l].status # "NONE" => TrailOnlyAfterArming(pos[o][l])
  /\ \A i \in DOMAIN trades : TrailOnlyAfterArming(trades[i])

\* C7 witness: a lot that rose (by less than 12%), then fell more than 4%
\* below its peak, and was not closed by the trail.
C7_Witness ==
  \E o \in Opps, l \in 1..2 :
    /\ pos[o][l].status # "NONE"
    /\ ~pos[o][l].trailing_active
    /\ pos[o][l].high_water_mark > pos[o][l].entry_price
    /\ pos[o][l].current_price * 100 <= pos[o][l].high_water_mark * 96
    /\ pos[o][l].exit_reason # "TP_TRAIL"

\* C8: for an armed open lot and a fetched price below the hard cap, the lot
\* is closed with TP_TRAIL at that price when the price is at or below 96% of
\* the high-water mark, and is not closed with TP_TRAIL when it is above.
C8_TrailExitLevel ==
  [][\A o \in Opps, l \in 1..2 :
       /\ pos[o][l].status = "OPEN" /\ pos[o][l].trailing_active
       /\ Sampled(o) /\ fetched'[o].price > 0 /\ fetched'[o].price < 9500
       => IF fetched'[o].price * 100 <= pos[o][l].high_water_mark * 96
            THEN /\ pos'[o][l].status = "CLOSED"
                 /\ pos'[o][l].exit_reason = "TP_TRAIL"
                 /\ pos'[o][l].exit_price = fetched'[o].price
            ELSE pos'[o][l].exit_reason # "TP_TRAIL"]_vars

\* C8 witness (scenario A): entry 0.75, high-water mark 0.90, TP_TRAIL at 0.858.
C8_Witness ==
  \E o \in Opps, l \in 1..2 :
    /\ pos[o][l].status = "CLOSED" /\ pos[o][l].exit_reason = "TP_TRAIL"
    /\ pos[o][l].entry_price = 7500 /\ pos[o][l].high_water_mark = 9000
    /\ pos[o][l].trailing_active /\ pos[o][l].exit_price = 8580

\* C9: for an open lot on which neither HARD_CAP nor TP_TRAIL fires, a
\* fetched price with a return <= -12% closes the lot with STOP_LOSS at that
\* price; a lot closes with STOP_LOSS only on such a price.
C9_StopLossLevel ==
  [][\A o \in Opps, l \in 1..2 :
       pos[o][l].status = "OPEN" /\ Sampled(o) /\ fetched'[o].price > 0 =>
         /\ /\ fetched'[o].price < 9500
            /\ ~(pos[o][l].trailing_active
                   /\ fetched'[o].price * 100 <= pos[o][l].high_water_mark * 96)
            /\ (fetched'[o].price - pos[o][l].entry_price) * 100
                  <= -12 * pos[o][l].entry_price
            => /\ pos'[o][l].status = "CLOSED"
               /\ pos'[o][l].exit_reason = "STOP_LOSS"
               /\ pos'[o][l].exit_price = fetched'[o].price
         /\ pos'[o][l].exit_reason = "STOP_LOSS" =>
              (fetched'[o].price - pos[o][l].entry_price) * 100
                 <= -12 * pos[o][l].entry_price]_vars

\* C9 witness (scenario B): entry 0.70, STOP_LOSS at 0.616.
C9_Witness ==
  \E o \in Opps, l \in 1..2 :
    /\ pos[o][l].status = "CLOSED" /\ pos[o][l].exit_reason = "STOP_LOSS"
    /\ pos[o][l].entry_price = 7000 /\ pos[o][l].exit_price = 6160

\* C10: when an armed lot meets the trail condition and the stop-loss
\* condition on the same sample, the exit reason is TP_TRAIL.
C10_TrailBeforeStopLoss ==
  [][\A o \in Opps, l \in 1..2 :
       /\ pos[o][l].status = "OPEN" /\ pos[o][l].trailing_active
       /\ Sampled(o) /\ fetched'[o].price > 0 /\ fetched'[o].price < 9500
       /\ fetched'[o].price * 100 <= pos[o][l].high_water_mark * 96
       /\ fetched'[o].price * 100 <= pos[o][l].entry_price * 88
       => pos'[o][l].status = "CLOSED" /\ pos'[o][l].exit_reason = "TP_TRAIL"]_vars

\* C10 witness: a lot closed by the trail at a loss of 12% or more.
C10_Witness ==
  \E o \in Opps, l \in 1..2 :
    /\ pos[o][l].status = "CLOSED" /\ pos[o][l].exit_reason = "TP_TRAIL"
    /\ pos[o][l].exit_price * 100 <= pos[o][l].entry_price * 88

\* C11: CLOSED is terminal.  A closed lot is never changed by any step; the
\* exit fields are written only by the step that takes the lot from OPEN to
\* CLOSED (the fetched price, the tick and the rule that fired) and are
\* untouched by every other step.
C11_ClosedIsTerminal ==
  [][\A o \in Opps, l \in 1..2 :
       /\ pos[o][l].status = "CLOSED" => pos'[o][l] = pos[o][l]
       /\ pos[o][l].status # "CLOSED" /\ pos'[o][l].status = "CLOSED" =>
            /\ pos[o][l].status = "OPEN"
            /\ pos[o][l].exit_price = 0 /\ pos[o][l].exit_time = 0
            /\ pos[o][l].exit_reason = ""
            /\ Sampled(o)
            /\ pos'[o][l].exit_price = fetched'[o].price
            /\ pos'[o][l].exit_time = now
            /\ pos'[o][l].exit_reason \in {"HARD_CAP", "TP_TRAIL", "STOP_LOSS"}
       /\ pos'[o][l].status # "CLOSED" =>
            /\ pos'[o][l].exit_price = 0 /\ pos'[o][l].exit_time = 0
            /\ pos'[o][l].exit_reason = ""]_vars

\* C11 witness: L1 was closed, the other lot is still open and was sampled
\* again after the close at a different price.
C11_Witness ==
  \E o \in Opps :
    /\ pos[o][1].status = "CLOSED"
    /\ pos[o][2].status = "OPEN"
    /\ fetched[o].time > pos[o][1].exit_time
    /\ fetched[o].price > 0
    /\ fetched[o].price # pos[o][1].exit_price

C13_AtMostTwoPositions ==
  /\ \A o \in Opps, l \in 1..2 :
       pos[o][l].status # "NONE" => pos[o][l].ladder_level = l
  /\ \A mkt \in DOMAIN markets : markets[mkt].count <= 2
  /\ \A i, j \in DOMAIN trades :
       /\ trades[i].market_id = trades[j].market_id
       /\ trades[i].ladder_level = trades[j].ladder_level
       => i = j

\* C14: the high-water mark of a lot equals the entry price when the lot is
\* opened, never decreases while the lot is open, and is never below the
\* entry price: in every step of the state machine and in every recorded
\* trade.
C14_HighWaterMarkMonotonic ==
  [][/\ \A o \in Opps, l \in 1..2 :
          /\ pos[o][l].status = "NONE" /\ pos'[o][l].status # "NONE" =>
               pos'[o][l].high_water_mark = pos'[o][l].entry_price
          /\ pos[o][l].status = "OPEN" =>
               pos'[o][l].high_water_mark >= pos[o][l].high_water_mark
          /\ pos'[o][l].status # "NONE" =>
               pos'[o][l].high_water_mark >= pos'[o][l].entry_price
     /\ \A i \in DOMAIN trades :
          trades[i].high_water_mark >= trades[i].entry_price]_vars

\* C14 witness: an open lot whose mark stayed above the entry while the
\* price fell below the entry, as the recorded stop-loss trades that had
\* seen positive territory.
C14_Witness ==
  /\ \E o \in Opps, l \in 1..2 :
       /\ pos[o][l].status = "OPEN"
       /\ pos[o][l].high_water_mark > pos[o][l].entry_price
       /\ pos[o][l].current_price < pos[o][l].entry_price
  /\ \E i \in DOMAIN trades :
       /\ trades[i].exit_reason = "STOP_LOSS"
       /\ trades[i].high_water_mark > trades[i].entry_price

\* C15: trailing_active never goes from true to false: a lot starts unarmed,
\* and once armed it is armed after every later step, whatever the sampled
\* price, so it is armed at most once.
C15_TrailingMonotonic ==
  [][\A o \in Opps, l \in 1..2 :
       /\ pos[o][l].status = "NONE" => ~pos'[o][l].trailing_active
       /\ pos[o][l].trailing_active =>
            /\ pos'[o][l].trailing_active
            /\ pos'[o][l].entry_time = pos[o][l].entry_time
            /\ pos'[o][l].status # "NONE"]_vars

\* C15 witness: a lot armed on one sample and sampled later at a price
\* below its entry (a return below zero), still armed after that sample.
C15_Witness ==
  \E o \in Opps, l \in 1..2 :
    /\ pos[o][l].status # "NONE"
    /\ pos[o][l].trailing_active
    /\ pos[o][l].high_water_mark * 100 >= pos[o][l].entry_price * 112
    /\ pos[o][l].current_price < pos[o][l].entry_price

Abs(x) == IF x < 0 THEN -x ELSE x

\* shares = cost_basis / entry_price to the nearest 0.01 share, with a
\* positive entry price and the cost basis of the ladder level.
SharesMatch(p) ==
  /\ p.entry_price > 0
  /\ p.shares > 0
  /\ 2 * Abs(p.shares * p.entry_price - p.cost_basis * 1000000) <= p.entry_price
  /\ p.cost_basis = (IF p.ladder_level = 1 THEN 100 ELSE 75)
  /\ p.ladder_level \in {1, 2}

\* C16: every position has entry_price > 0, shares > 0, shares equal to
\* cost_basis / entry_price, and a cost basis of 100 at ladder level 1 and
\* of 75 at ladder level 2: every lot of the state machine and every
\* recorded trade.
C16_SharesFromCostBasis ==
  /\ \A o \in Opps, l \in 1..2 :
       pos[o][l].status # "NONE" => SharesMatch(pos[o][l])
  /\ \A i \in DOMAIN trades : SharesMatch(trades[i])

\* C16 witness: L1 of 100 at 0.75 (133.33 shares) and L2 of 75 at 0.7125
\* (105.26 shares).
C16_Witness ==
  \E o \in Opps :
    /\ pos[o][1].status # "NONE" /\ pos[o][1].entry_price = 7500
    /\ pos[o][1].shares = 13333
    /\ pos[o][2].status # "NONE" /\ pos[o][2].entry_price = 7125
    /\ pos[o][2].shares = 10526

\* realized_pnl = (exit_price - entry_price) * shares within 0.01, and
\* realized_pct = realized_pnl / cost_basis * 100 within 0.01, of a recorded
\* trade (P&L and percent in units of 0.01, shares in units of 0.01 share).
RealizedMatches(t) ==
  /\ Abs(t.realized_pnl * 10000 - (t.exit_price - t.entry_price) * t.shares) <= 10000
  /\ Abs(t.realized_pct * t.cost_basis - t.realized_pnl * 100) <= 100

\* C17: every closed position is closed at the price of its last sample
\* (exit_price = current_price), and its realized P&L is
\* (exit_price - entry_price) * shares and its realized percent is
\* realized_pnl / cost_basis * 100: every closed lot of the state machine
\* and every recorded trade.
C17_RealizedPnlAtExitSample ==
  /\ \A o \in Opps, l \in 1..2 :
       pos[o][l].status = "CLOSED" => pos[o][l].exit_price = pos[o][l].current_price
  /\ \A i \in DOMAIN trades :
       trades[i].status = "CLOSED" =>
         /\ trades[i].exit_price = trades[i].current_price
         /\ RealizedMatches(trades[i])

\* C18: a sample on which the feed is unavailable changes no position and
\* no opportunity: nothing is opened, nothing is closed, and current_price,
\* high_water_mark and trailing_active of every lot are as before (so the
\* sample is not evaluated as a price of 0, which would stop every open lot
\* out); a sample that is available is evaluated on every open lot, also
\* right after an unavailable one.
C18_FeedOutageIsNoOp ==
  [][\A o \in Opps :
       /\ Sampled(o) /\ fetched'[o].unavailable =>
            /\ pos'[o] = pos[o]
            /\ opp'[o] = opp[o]
       /\ Sampled(o) /\ ~fetched'[o].unavailable =>
            /\ fetched'[o].price > 0
            /\ \A l \in 1..2 :
                 pos[o][l].status = "OPEN" =>
                   pos'[o][l].current_price = fetched'[o].price]_vars

\* C18 witness: the feed is unavailable on a sample made while a lot is open
\* at a loss, and the lot is still open with its price unchanged.
C18_Witness ==
  \E o \in Opps, l \in 1..2 :
    /\ fetched[o].unavailable
    /\ fetched[o].time > pos[o][l].entry_time
    /\ pos[o][l].status = "OPEN"
    /\ pos[o][l].current_price < pos[o][l].entry_price

\* C19: a whale trade record that lacks side, price or size is rejected with
\* reason MALFORMED_INPUT and is not evaluated by the eligibility checks.
C19_MalformedInputRejected ==
  \A o \in Opps :
    opp[o].observed /\ ~({"side", "price", "size"} \subseteq DOMAIN opp[o].trade) =>
      /\ ~opp[o].copy_eligible
      /\ ReasonCode(opp[o].copy_reason) = "MALFORMED_INPUT"

\* C20: with LIVE_ONLY, a trade that passes the side, price and size checks
\* is rejected with NOT_LIVE exactly when the game-start time of its market
\* is strictly after the observation time, and is accepted when the
\* game-start time is at or before the observation time.
C20_NotLiveIffStartsLater ==
  \A o \in Opps :
    LIVE_ONLY /\ opp[o].observed /\ PassesChecks(opp[o].trade) =>
      /\ (~opp[o].copy_eligible /\ ReasonCode(opp[o].copy_reason) = "NOT_LIVE")
           <=> opp[o].game_start_time > opp[o].observed_at
      /\ opp[o].game_start_time <= opp[o].observed_at =>
           opp[o].live /\ opp[o].copy_eligible

\* C21: the token, outcome and outcome index cached for an opportunity are
\* those of its whale trade and never change once observed; every lot is on
\* that token, outcome and index, and its token is the market's token of the
\* whale's outcome, never the opposite one.
C21_SameTokenAsWhale ==
  [][\A o \in Opps :
       /\ opp[o].observed =>
            /\ opp'[o].trade = opp[o].trade
            /\ opp'[o].token_id = opp[o].token_id
            /\ opp'[o].outcome = opp[o].outcome
            /\ opp'[o].outcome_index = opp[o].outcome_index
       /\ \A l \in 1..2 :
            pos'[o][l].status # "NONE" =>
              /\ pos'[o][l].token_id = opp'[o].trade["asset"]
              /\ pos'[o][l].outcome = opp'[o].trade["outcome"]
              /\ pos'[o][l].outcome_index = opp'[o].trade["outcomeIndex"]
              /\ map_token_to_outcome_gamma(GammaMarket, pos'[o][l].token_id)
                   = <<opp'[o].trade["outcome"], opp'[o].trade["outcomeIndex"]>>]_vars

\* C21 witness: the whale bought the second outcome of the market, and both
\* lots are on its token.
C21_Witness ==
  \E o \in Opps :
    /\ opp[o].observed /\ opp[o].outcome_index = 1
    /\ pos[o][1].status # "NONE" /\ pos[o][1].token_id = "token-no"
    /\ pos[o][2].status # "NONE" /\ pos[o][2].token_id = "token-no"
    /\ pos[o][2].outcome = "No"

C23_L2OnlyWhileL1Open ==
  /\ \A o \in Opps :
       pos[o][2].status = "OPEN" => pos[o][1].status = "OPEN"
  /\ \A i \in DOMAIN trades :
       trades[i].ladder_level = 2 =>
         \E j \in DOMAIN trades :
           /\ trades[j].market_id = trades[i].market_id
           /\ trades[j].ladder_level = 1
           /\ trades[j].entry_time <= trades[i].entry_time
           /\ trades[j].exit_time >= trades[i].exit_time

\* The exit rules on a lot's own fields, after the sample p is tracked.
ExitsOnOwnFields(lot, p) ==
  LET mark == IF p > lot.high_water_mark THEN p ELSE lot.high_water_mark
      armed == lot.trailing_active \/ p * 100 >= lot.entry_price * 112
  IN  \/ p >= 9500
      \/ armed /\ p * 100 <= mark * 96
      \/ p * 100 <= lot.entry_price * 88

\* C24: on a sample taken while both lots are open, each lot is closed
\* exactly when the exit rules fire on its own entry price, high-water mark
\* and arming, and a lot that stays open keeps its entry fields and its own
\* mark and arming whatever happens to the other lot; the opportunity is
\* closed (no longer evaluated) exactly when every lot it opened is closed.
C24_LotsIndependent ==
  [][\A o \in Opps :
       /\ pos[o][1].status = "OPEN" /\ pos[o][2].status = "OPEN" /\ Sampled(o)
          /\ ~fetched'[o].unavailable =>
            \A l \in 1..2 :
              LET p == fetched'[o].price
                  mark == IF p > pos[o][l].high_water_mark
                            THEN p ELSE pos[o][l].high_water_mark
              IN  /\ pos'[o][l].status = "CLOSED" <=> ExitsOnOwnFields(pos[o][l], p)
                  /\ pos'[o][l].status \in {"OPEN", "CLOSED"}
                  /\ pos'[o][l].entry_price = pos[o][l].entry_price
                  /\ pos'[o][l].cost_basis = pos[o][l].cost_basis
                  /\ pos'[o][l].shares = pos[o][l].shares
                  /\ pos'[o][l].current_price = p
                  /\ pos'[o][l].high_water_mark = mark
                  /\ pos'[o][l].trailing_active =
                       (pos[o][l].trailing_active \/ p * 100 >= pos[o][l].entry_price * 112)
       /\ IsClosed(o) <=>
            /\ \E l \in 1..2 : pos[o][l].status = "CLOSED"
            /\ \A l \in 1..2 : pos[o][l].status \in {"NONE", "CLOSED"}
       /\ HasOpenLot(o) /\ Sampled(o) /\ ~fetched'[o].unavailable =>
            \A l \in 1..2 :
              pos[o][l].status = "OPEN" => pos'[o][l].current_price = fetched'[o].price
       /\ IsClosed(o) => pos'[o] = pos[o]]_vars

\* C24 witness: both lots were open together, L2 was closed by its trailing
\* stop and L1, never armed, is still open.
C24_Witness ==
  \E o \in Opps :
    /\ pos[o][1].status = "OPEN" /\ ~pos[o][1].trailing_active
    /\ pos[o][2].status = "CLOSED" /\ pos[o][2].exit_reason = "TP_TRAIL"
    /\ pos[o][1].current_price = pos[o][2].exit_price

\* The step changed something of opportunity o.
Touched(o) == opp'[o] # opp[o] \/ pos'[o] # pos[o] \/ fetched'[o] # fetched[o]

\* The lots of an opportunity after the sample p at tick t, computed from
\* the opportunity's own record and lots alone.
LotsAfterSample(tracked, lots, p, t) ==
  IF \A l \in 1..2 : lots[l].status = "NONE"
    THEN [l \in 1..2 |->
            IF l = 1 /\ tracked.copy_eligible /\ 6500 <= p /\ p <= 8500
              THEN OpenPosition(tracked, 1, 100, p, t) ELSE lots[l]]
    ELSE LET l1 == EvaluateLot(lots[1], p, t)
         IN  [l \in 1..2 |->
                IF l = 1 THEN l1
                ELSE IF l1.status = "OPEN" /\ lots[2].status = "NONE"
                        /\ p * 100 <= l1.entry_price * 95
                  THEN OpenPosition(tracked, 2, 75, p, t)
                ELSE EvaluateLot(lots[2], p, t)]

\* C25: a step for one opportunity (a sample evaluated, or a fetch that
\* failed) changes nothing of any other opportunity; a failed fetch for one
\* opportunity leaves the evaluation of the others enabled; and what a
\* sample does to an opportunity is determined by that opportunity's own
\* record and lots, the sample and its tick, whatever the other
\* opportunities are doing, so each ends as it would when run alone.
C25_OpportunitiesIndependent ==
  [][\A o \in Opps :
       /\ Touched(o) => \A q \in Opps \ {o} : ~Touched(q)
       /\ fetched[o].unavailable /\ now < MaxTime =>
            \A q \in Opps \ {o} :
              /\ HasOpenLot(q) =>
                   ENABLED (\E response \in PairResponses : EvaluatePositions(q, response))
              /\ opp[q].observed /\ ~HasPosition(q) =>
                   ENABLED (\E response \in PairResponses : CheckEntries(q, response))
       /\ Sampled(o) /\ ~fetched'[o].unavailable =>
            /\ pos'[o] = LotsAfterSample(opp[o], pos[o], fetched'[o].price, now)
            /\ opp'[o] = opp[o]
       /\ Sampled(o) /\ fetched'[o].unavailable =>
            pos'[o] = pos[o] /\ opp'[o] = opp[o]]_vars

\* C25 witness: the last fetch of one opportunity failed, and after that
\* the open lot of the other opportunity was sampled.
C25_Witness ==
  \E o \in Opps, q \in Opps :
    /\ o # q
    /\ fetched[o].unavailable /\ opp[o].observed
    /\ pos[q][1].status = "OPEN"
    /\ fetched[q].time > fetched[o].time
    /\ fetched[q].time > pos[q][1].entry_time

\* C26: a DCA add attempted while L1 is not open, and a transition attempted
\* on a lot that is already CLOSED, return PRECONDITION_FAILED to the caller
\* and change no lot.
C26_PreconditionFailureReported ==
  [][\A o \in Opps :
       opp'[o].last_attempt.time = now =>
         LET attempt == opp'[o].last_attempt
         IN  /\ attempt.kind = "OPEN_L2" /\ pos[o][1].status # "OPEN" =>
                  attempt.outcome = "PRECONDITION_FAILED" /\ pos'[o] = pos[o]
             /\ attempt.kind = "TRANSITION" /\ pos[o][attempt.level].status = "CLOSED" =>
                  attempt.outcome = "PRECONDITION_FAILED" /\ pos'[o] = pos[o]
             /\ attempt.outcome \in {"OK", "PRECONDITION_FAILED"}
             /\ attempt.outcome = "PRECONDITION_FAILED" => pos'[o] = pos[o]]_vars

\* C26 witness: a DCA add was attempted after L1 had been closed, it was
\* reported as failed, and there is no level-2 lot.
C26_Witness ==
  \E o \in Opps :
    /\ opp[o].last_attempt.kind = "OPEN_L2"
    /\ opp[o].last_attempt.outcome = "PRECONDITION_FAILED"
    /\ pos[o][1].status = "CLOSED"
    /\ opp[o].last_attempt.time > pos[o][1].exit_time
    /\ pos[o][2].status = "NONE"

\* C27: the high-water mark is the maximum of the entry price and the prices
\* sampled since entry, so it is never below the entry price, the last
\* sampled price or, at close, the exit price: for every lot of the state
\* machine and every recorded trade.
C27_MarkBoundsPrices ==
  /\ \A o \in Opps, l \in 1..2 :
       pos[o][l].status # "NONE" =>
         /\ pos[o][l].high_water_mark >= pos[o][l].entry_price
         /\ pos[o][l].high_water_mark >= pos[o][l].current_price
         /\ pos[o][l].status = "CLOSED" =>
              pos[o][l].high_water_mark >= pos[o][l].exit_price
  /\ \A i \in DOMAIN trades :
       /\ trades[i].high_water_mark >= trades[i].entry_price
       /\ trades[i].high_water_mark >= trades[i].current_price
       /\ trades[i].status = "CLOSED" =>
            trades[i].high_water_mark >= trades[i].exit_price

\* C28: when cleanup_orphans has run on a store, no PaperTrade row is left
\* whose marketId matches no TrackedMarket, and no TrackedMarket row is left
\* with whalePrice < 0.65 or currentPrice < 0.01.
C28_BadMarketsDeleted ==
  [][\A store \in Stores :
       LET after == cleanup_orphans(store)
       IN  /\ \A pt \in after.PaperTrade :
                \E tm \in after.TrackedMarket : pt.marketId = tm.id
           /\ \A tm \in after.TrackedMarket :
                ~(tm.whalePrice < 6500 \/ tm.currentPrice < 100)]_vars

\* C29: a lot, open or closed, is armed (trailing_active) exactly when some
\* sample since its entry returned at least +12%, that is, exactly when its
\* high-water mark is at least 1.12 times its entry price; a lot becomes
\* armed only on a sample at or above that level, stays unarmed on a sample
\* below it, and the sample that arms it never closes it as TP_TRAIL.  The
\* recorded trades are armed exactly when their mark is at that level.
C29_TrailingIffTriggerSeen ==
  [][/\ \A o \in Opps, l \in 1..2 :
          /\ pos'[o][l].status # "NONE" =>
               (pos'[o][l].trailing_active <=>
                  pos'[o][l].high_water_mark * 100 >= pos'[o][l].entry_price * 112)
          /\ pos[o][l].status = "OPEN" /\ ~pos[o][l].trailing_active
                /\ pos'[o][l].trailing_active =>
               /\ pos'[o][l].current_price * 100 >= pos'[o][l].entry_price * 112
               /\ pos'[o][l].current_price = pos'[o][l].high_water_mark
               /\ pos'[o][l].exit_reason # "TP_TRAIL"
          /\ pos[o][l].status = "OPEN" /\ ~pos'[o][l].trailing_active =>
               pos'[o][l].current_price * 100 < pos'[o][l].entry_price * 112
     /\ \A i \in DOMAIN trades :
          trades[i].trailing_active <=>
            trades[i].high_water_mark * 100 >= trades[i].entry_price * 112]_vars

\* C29 witness: a lot armed by the sample just taken (it is at its mark,
\* 12% or more above the entry) and still open, beside a lot of the ledger
\* that was armed and a lot of the ledger that never was.
C29_Witness ==
  /\ \E o \in Opps, l \in 1..2 :
       /\ pos[o][l].status = "OPEN"
       /\ pos[o][l].trailing_active
       /\ pos[o][l].current_price = pos[o][l].high_water_mark
       /\ pos[o][l].current_price * 100 >= pos[o][l].entry_price * 112
  /\ \E i, j \in DOMAIN trades :
       trades[i].trailing_active /\ ~trades[j].trailing_active

\* The check a reason string of either implementation names.
RejectingCheck(reason) ==
  CASE reason \in {"SKIP: Side is not BUY", "SKIP: Side is"} -> "side"
    [] reason \in {"SKIP: Price < min", "SKIP: Price < 65%"} -> "price below minimum"
    [] reason \in {"SKIP: Price > max", "SKIP: Price > 85%"} -> "price above maximum"
    [] reason \in {"SKIP: Trade size < min", "SKIP: Size < $50"} -> "size"
    [] OTHER -> "none"

SameDecision(a, b) ==
  /\ a.eligible = b.eligible
  /\ RejectingCheck(a.reason) = RejectingCheck(b.reason)
  /\ a.eligible <=> RejectingCheck(a.reason) = "none"

\* C30: simulate_eligibility_check and the inline evaluation of
\* test_eligibility_evaluation accept the same trade records and reject the
\* others at the same check (side, price below minimum, price above maximum,
\* size), records without side, price or size included: for every trade
\* record, and for the decision stored with every observed opportunity.
C30_EligibilityImplementationsAgree ==
  /\ \A trade \in Trades :
       SameDecision(simulate_eligibility_check(trade), test_eligibility_evaluation(trade))
  /\ \A o \in Opps :
       opp[o].observed =>
         SameDecision([eligible |-> opp[o].copy_eligible, reason |-> opp[o].copy_reason],
                      test_eligibility_evaluation(opp[o].trade))

\* C30 witness: an observed BUY without a price, rejected by both
\* implementations at the minimum-price check (the price defaults to 0).
C30_Witness ==
  \E o \in Opps :
    /\ opp[o].observed
    /\ "side" \in DOMAIN opp[o].trade /\ opp[o].trade["side"] = "BUY"
    /\ "price" \notin DOMAIN opp[o].trade
    /\ ~opp[o].copy_eligible
    /\ RejectingCheck(opp[o].copy_reason) = "price below minimum"
    /\ RejectingCheck(test_eligibility_evaluation(opp[o].trade).reason) = "price below minimum"

=============================================================================
